---- MODULE Spec2Model ----
(***************************************************************************)
(* pkl-rs: the source cursor (crates/pkl-lexer/src/source.rs), the         *)
(* identifier scan routines (crates/pkl-lexer/src/identifier.rs), the      *)
(* token model (crates/pkl-lexer/src/token.rs) and the driver loop         *)
(* (crates/pkl-lang/src/main.rs).                                          *)
(*                                                                         *)
(* Bytes are their ASCII codes.  The cursor's three raw pointers are kept  *)
(* as the buffer's address `start`, its length Len(text) (end - start) and *)
(* the offset `pos` (ptr - start).  A read through a pointer outside       *)
(* [start, end) is undefined behaviour: it yields a byte chosen            *)
(* nondeterministically (`junk`) and is recorded in `oob`.  Integer        *)
(* subtraction is the wrapping subtraction of the type's width (a build    *)
(* without overflow checks); OpOffset also takes the build with overflow   *)
(* checks, where an underflowing subtraction panics.                       *)
(*                                                                         *)
(* Lexer::next_token, Lexer::read_byte and Lexer::bump live in the crate's *)
(* lib.rs; they are modelled from spec.md section 4.2 and from their uses  *)
(* in identifier.rs.                                                       *)
(***************************************************************************)
EXTENDS Integers, Sequences, FiniteSets, TLC

VARIABLES
    text,     \* the source buffer, a sequence of bytes (start .. end)
    start,    \* Source.start as an address
    pos,      \* Source.ptr - Source.start
    index,    \* Lexer.index
    tokens,   \* tokens returned by next_token() in the driver loop, in order
    printed,  \* lexemes printed by the driver
    status,   \* "running" | "panicked" (the driver's slice panicked)
    pulls,    \* next_token() calls made after the end was reached
    oob,      \* the read sites that read outside [start, end) so far
    ret       \* the value the last operation returned

vars == <<text, start, pos, index, tokens, printed, status, pulls, oob, ret>>

(* ------------------------------ bounds -------------------------------- *)

MaxLen == 3
MaxPulls == 2

\* one byte of every class the code tells apart: a 1 _ ` + = and space
SampleBytes == {97, 49, 95, 96, 43, 61, 32}

\* "`hello` + `world`"
MainSource ==
    <<96, 104, 101, 108, 108, 111, 96, 32, 43, 32, 96, 119, 111, 114, 108, 100, 96>>

\* "abc123 def"
IdentifierExample == <<97, 98, 99, 49, 50, 51, 32, 100, 101, 102>>

Texts ==
    UNION {[1..n -> SampleBytes] : n \in 0..MaxLen} \cup {MainSource, IdentifierExample}

\* The low 32 bits of the buffer's address, as two 16-bit limbs [hi, lo]:
\* 0x00001000, and 0xFFFFFFFE (the buffer crosses a 4 GiB boundary).  The
\* bits above them play no part: the 64-bit addresses never wrap.
StartAddrs == {[hi |-> 0, lo |-> 4096], [hi |-> 65535, lo |-> 65534]}

(* ------------------------------ bytes --------------------------------- *)

is_ascii_alphabetic(b) == (b >= 65 /\ b <= 90) \/ (b >= 97 /\ b <= 122)

is_ascii_alphanumeric(b) == is_ascii_alphabetic(b) \/ (b >= 48 /\ b <= 57)

\* the byte a read at offset `off` from `start` yields
ByteAt(off, junk) == IF off >= 0 /\ off < Len(text) THEN text[off + 1] ELSE junk

OutOfBounds(off) == off < 0 \/ off >= Len(text)

Note(sites, off, site) == IF OutOfBounds(off) THEN sites \cup {site} ELSE sites

(* ------------------------------ Source -------------------------------- *)

\* `ptr as u32` for ptr = start + p: the low 32 bits, in limbs
AsU32(p) ==
    LET lo == start.lo + p
    IN  [hi |-> (start.hi + (lo \div 65536)) % 65536, lo |-> lo % 65536]

\* a - b on u32, wrapping; the result as a number (its high limb is small here)
SubU32(a, b) ==
    LET borrow == IF a.lo < b.lo THEN 1 ELSE 0
        lo == (a.lo - b.lo + 65536) % 65536
        hi == (a.hi - b.hi - borrow + 131072) % 65536
    IN  hi * 65536 + lo

\* ptr as usize - start as usize: the full addresses, ptr = start + p, no wrap
get_current_pos(p) == p

\* mutant: the byte is read and the pointer is left where it was
advance_no_move(p, idx, junk) == [value |-> ByteAt(idx, junk), pos |-> p]

advance(p, idx, junk) == [value |-> ByteAt(idx, junk), pos |-> idx]

add(p, idx, junk) == ByteAt(p + idx, junk)

current(p, junk) == ByteAt(p, junk)

\* pointers are compared as full addresses: ptr >= end iff p >= Len(text)
\* mutant: `ptr > end` for `ptr >= end`
is_at_end_strict(p) == p > Len(text)

is_at_end(p) == p >= Len(text)

peek(p, junk) ==
    IF p < Len(text)
    THEN [some |-> TRUE, value |-> ByteAt(p + 1, junk)]
    ELSE [some |-> FALSE, value |-> 0]

\* len = end - start on usize, wrapping: a negative len stands for 2^64 + len
get_slice(s, e) == [from |-> s, len |-> e - s, wrapped |-> e < s]

offset(p) == SubU32(AsU32(p), AsU32(0))

\* a < b on u32
LessU32(a, b) == a.hi < b.hi \/ (a.hi = b.hi /\ a.lo < b.lo)

\* whether the subtraction of offset() underflows: it then wraps, or panics
\* in a build with overflow checks
offset_underflows(p) == LessU32(AsU32(p), AsU32(0))

\* mutant: `ptr <= end` for `ptr < end`
next_char_inclusive(p, junk) ==
    IF p <= Len(text)
    THEN [some |-> TRUE, value |-> ByteAt(p, junk), pos |-> p + 1]
    ELSE [some |-> FALSE, value |-> 0, pos |-> p]

next_char(p, junk) ==
    IF p < Len(text)
    THEN [some |-> TRUE, value |-> ByteAt(p, junk), pos |-> p + 1]
    ELSE [some |-> FALSE, value |-> 0, pos |-> p]

peek_char(p, junk) ==
    IF p < Len(text)
    THEN [some |-> TRUE, value |-> ByteAt(p, junk)]
    ELSE [some |-> FALSE, value |-> 0]

(* ------------------------------ Token --------------------------------- *)

\* mutant: another kind for the default token
TokenNewPlus == [kind |-> "Plus", start |-> 0, end |-> 0]

TokenNew == [kind |-> "Empty", start |-> 0, end |-> 0]

(* ------------------------------ Lexer --------------------------------- *)

\* The lexer's operations take the cursor offset p (source.ptr), the lexer's
\* index i and the record o of out-of-bounds reads, and yield [pos, index, oob].

Lexer(p, i, o) == [pos |-> p, index |-> i, oob |-> o]

\* the byte at the lexer's index, read through the cursor, which moves there
read_byte(p, i, junk) == advance(p, i, junk)

bump(i) == i + 1

\* mutant: `==` for `!=` in the loop condition
IsIdentifierByteTypo(byte) == (is_ascii_alphanumeric(byte) /\ byte = 32) \/ byte = 95

IsIdentifierByte(byte) == (is_ascii_alphanumeric(byte) /\ byte # 32) \/ byte = 95

RECURSIVE identifier_handler(_, _, _, _)
identifier_handler(p, i, o, junk) ==
    IF is_at_end(p) THEN Lexer(p, i, o)
    ELSE IF IsIdentifierByte(read_byte(p, i, junk).value)
    THEN identifier_handler(read_byte(p, i, junk).pos, i + 1,
                            Note(o, i, "identifier_handler"), junk)
    ELSE Lexer(read_byte(p, i, junk).pos, i, Note(o, i, "identifier_handler"))

\* the while loop of quoted_identifier_handler
RECURSIVE QuotedLoop(_, _, _, _)
QuotedLoop(p, i, o, junk) ==
    IF is_at_end(p) THEN Lexer(p, i, o)
    ELSE IF is_ascii_alphanumeric(read_byte(p, i, junk).value)
    THEN QuotedLoop(read_byte(p, i, junk).pos, i + 1,
                    Note(o, i, "quoted_identifier_handler"), junk)
    ELSE Lexer(read_byte(p, i, junk).pos, i, Note(o, i, "quoted_identifier_handler"))

\* mutant: the closing byte is not consumed
quoted_identifier_handler_open(p, i, o, junk) == QuotedLoop(p, bump(i), o, junk)

quoted_identifier_handler(p, i, o, junk) ==
    [QuotedLoop(p, bump(i), o, junk) EXCEPT !.index = @ + 1]

\* '+': Plus, or PlusEq when the next byte is '='
PlusHandler(p, i, o, junk) ==
    IF peek(p, junk).some
    THEN IF peek(p, junk).value = 61
         THEN [kind |-> "PlusEq", lx |-> Lexer(p, bump(bump(i)), Note(o, p + 1, "peek"))]
         ELSE [kind |-> "Plus", lx |-> Lexer(p, bump(i), Note(o, p + 1, "peek"))]
    ELSE [kind |-> "Plus", lx |-> Lexer(p, bump(i), o)]

Dispatch(byte, p, i, o, junk) ==
    IF is_ascii_alphabetic(byte) \/ byte = 95
    THEN [kind |-> "Identifier", lx |-> identifier_handler(p, i, o, junk)]
    ELSE IF byte = 96
    THEN [kind |-> "Identifier", lx |-> quoted_identifier_handler(p, i, o, junk)]
    ELSE IF byte = 43
    THEN PlusHandler(p, i, o, junk)
    ELSE [kind |-> "Empty", lx |-> Lexer(p, bump(i), o)]

\* the cursor is moved to the lexer's index before the end of the span is taken
Seek(lx, junk) ==
    Lexer(advance(lx.pos, lx.index, junk).pos, lx.index, Note(lx.oob, lx.index, "seek"))

next_token(p, i, o, junk) ==
    IF is_at_end(p)
    THEN [tok |-> TokenNew, lx |-> Lexer(p, i, o)]
    ELSE LET first == read_byte(p, i, junk)
             scanned == Dispatch(first.value, first.pos, i, Note(o, i, "next_token"), junk)
             fin == Seek(scanned.lx, junk)
         IN  [tok |-> [kind |-> scanned.kind,
                       start |-> offset(first.pos),
                       end |-> offset(fin.pos)],
              lx |-> fin]

(* ------------------------------ driver -------------------------------- *)

SliceInBounds(s, e) == s <= e /\ e <= Len(text)

Init ==
    /\ text \in Texts
    /\ start \in StartAddrs
    /\ pos = 0
    /\ index = 0
    /\ tokens = <<>>
    /\ printed = <<>>
    /\ status = "running"
    /\ pulls = 0
    /\ oob = {}
    /\ ret = [op |-> "new"]

\* one turn of the loop of main: next_token, then print the lexeme of a
\* token that is not Empty
MainLoop ==
    /\ status = "running"
    /\ ~is_at_end(pos)
    /\ \E junk \in SampleBytes :
        \E r \in {next_token(pos, index, oob, junk)} :
            /\ pos' = r.lx.pos
            /\ index' = r.lx.index
            /\ oob' = r.lx.oob
            /\ tokens' = Append(tokens, r.tok)
            /\ ret' = [op |-> "next_token", tok |-> r.tok]
            /\ IF r.tok.kind = "Empty"
               THEN UNCHANGED <<printed, status>>
               ELSE IF SliceInBounds(r.tok.start, r.tok.end)
               THEN /\ printed' = Append(printed, SubSeq(text, r.tok.start + 1, r.tok.end))
                    /\ UNCHANGED status
               ELSE /\ status' = "panicked"
                    /\ UNCHANGED printed
    /\ UNCHANGED <<text, start, pulls>>

\* a caller that keeps pulling after the end was reached
PullAtEnd ==
    /\ status = "running"
    /\ is_at_end(pos)
    /\ pulls < MaxPulls
    /\ \E junk \in SampleBytes :
        \E r \in {next_token(pos, index, oob, junk)} :
            /\ pos' = r.lx.pos
            /\ index' = r.lx.index
            /\ oob' = r.lx.oob
            /\ ret' = [op |-> "next_token", tok |-> r.tok]
    /\ pulls' = pulls + 1
    /\ UNCHANGED <<text, start, tokens, printed, status>>

Next == MainLoop \/ PullAtEnd

Spec == Init /\ [][Next]_vars

\* the loop of main runs on while its condition holds
FairSpec == Spec /\ WF_vars(MainLoop)

(* --------------------- the cursor's operations alone ------------------- *)

MaxOver == 1

\* two byte values tell the positions of a buffer apart
CursorBytes == {97, 61}

CursorTexts == UNION {[1..n -> CursorBytes] : n \in 0..MaxLen}

\* the offsets a caller may ask for: inside the buffer, its end, and past it
Requests == 0..(Len(text) + MaxOver)

CursorInit ==
    /\ text \in CursorTexts
    /\ start \in StartAddrs
    /\ pos = 0
    /\ index = 0
    /\ tokens = <<>>
    /\ printed = <<>>
    /\ status = "running"
    /\ pulls = 0
    /\ oob = {}
    /\ ret = [op |-> "new"]

\* an operation's result, with whether it read outside the buffer, is in `ret`
Frame == UNCHANGED <<text, start, index, tokens, printed, status, pulls, oob>>

OpGetCurrentPos ==
    /\ ret' = [op |-> "get_current_pos", before |-> pos, value |-> get_current_pos(pos)]
    /\ UNCHANGED pos
    /\ Frame

OpAdvance ==
    /\ \E idx \in Requests, junk \in CursorBytes :
        LET r == advance(pos, idx, junk)
        IN  /\ pos' = r.pos
            /\ ret' = [op |-> "advance", before |-> pos, arg |-> idx, value |-> r.value,
                       oob |-> OutOfBounds(idx)]
    /\ Frame

OpAdd ==
    /\ \E idx \in Requests, junk \in CursorBytes :
        ret' = [op |-> "add", before |-> pos, arg |-> idx, value |-> add(pos, idx, junk),
                oob |-> OutOfBounds(pos + idx)]
    /\ UNCHANGED pos
    /\ Frame

OpCurrent ==
    /\ \E junk \in CursorBytes :
        ret' = [op |-> "current", before |-> pos, value |-> current(pos, junk),
                oob |-> OutOfBounds(pos)]
    /\ UNCHANGED pos
    /\ Frame

OpIsAtEnd ==
    /\ ret' = [op |-> "is_at_end", before |-> pos, value |-> is_at_end(pos)]
    /\ UNCHANGED pos
    /\ Frame

OpPeek ==
    /\ \E junk \in CursorBytes :
        LET r == peek(pos, junk)
        IN  ret' = [op |-> "peek", before |-> pos, some |-> r.some, value |-> r.value,
                    oob |-> r.some /\ OutOfBounds(pos + 1)]
    /\ UNCHANGED pos
    /\ Frame

OpGetSlice ==
    /\ \E s \in Requests, e \in Requests :
        ret' = [op |-> "get_slice", before |-> pos, args |-> <<s, e>>,
                view |-> get_slice(s, e)]
    /\ UNCHANGED pos
    /\ Frame

\* `checks`: the build has overflow checks
OpOffset ==
    /\ \E checks \in BOOLEAN :
        ret' = IF checks /\ offset_underflows(pos)
               THEN [op |-> "offset", before |-> pos, underflow |-> TRUE,
                     panicked |-> TRUE]
               ELSE [op |-> "offset", before |-> pos,
                     underflow |-> offset_underflows(pos), panicked |-> FALSE,
                     value |-> offset(pos)]
    /\ UNCHANGED pos
    /\ Frame

OpNextChar ==
    /\ \E junk \in CursorBytes :
        LET r == next_char(pos, junk)
        IN  /\ pos' = r.pos
            /\ ret' = [op |-> "next_char", before |-> pos, some |-> r.some,
                       value |-> r.value]
    /\ Frame

OpPeekChar ==
    /\ \E junk \in CursorBytes :
        LET r == peek_char(pos, junk)
        IN  ret' = [op |-> "peek_char", before |-> pos, some |-> r.some,
                    value |-> r.value]
    /\ UNCHANGED pos
    /\ Frame

CursorNext ==
    \/ OpGetCurrentPos
    \/ OpAdvance
    \/ OpAdd
    \/ OpCurrent
    \/ OpIsAtEnd
    \/ OpPeek
    \/ OpGetSlice
    \/ OpOffset
    \/ OpNextChar
    \/ OpPeekChar

CursorSpec == CursorInit /\ [][CursorNext]_vars

(* ------------------------------ claims -------------------------------- *)

\* the end of the maximal run of [A-Za-z0-9_] bytes of the text from offset i
RECURSIVE IdentRunEnd(_)
IdentRunEnd(i) ==
    IF i < Len(text) /\ (is_ascii_alphanumeric(text[i + 1]) \/ text[i + 1] = 95)
    THEN IdentRunEnd(i + 1)
    ELSE i

\* the end of the maximal run of ASCII alphanumeric bytes of the text from i
RECURSIVE AlnumRunEnd(_)
AlnumRunEnd(i) ==
    IF i < Len(text) /\ is_ascii_alphanumeric(text[i + 1])
    THEN AlnumRunEnd(i + 1)
    ELSE i

\* a backtick at offset i, a run of alphanumeric bytes, a closing backtick
WellFormedQuotedAt(i) ==
    /\ i < Len(text)
    /\ text[i + 1] = 96
    /\ AlnumRunEnd(i + 1) < Len(text)
    /\ text[AlnumRunEnd(i + 1) + 1] = 96

AtEnd == is_at_end(pos)

\* C1: the driver loop receives at most Len(text) tokens, the cursor reaches
\* the end, and once at_end() holds it holds after every further next_token().
C1_Termination ==
    /\ [](Len(tokens) <= Len(text))
    /\ [][AtEnd => AtEnd']_vars
    /\ <>[]AtEnd

C1_Witness == AtEnd /\ pulls = MaxPulls /\ Len(tokens) >= 2

\* C2: every token returned has a span with 0 <= start <= end <= Len(text).
C2_SpanInBounds ==
    \A k \in DOMAIN tokens :
        /\ 0 <= tokens[k].start
        /\ tokens[k].start <= tokens[k].end
        /\ tokens[k].end <= Len(text)

\* C3: after a full pass the spans tile the source: the first starts at 0,
\* each later one starts where the previous one ended, the last ends at
\* Len(text).
C3_SpansTile ==
    (AtEnd /\ tokens # <<>>) =>
        /\ tokens[1].start = 0
        /\ \A k \in 2..Len(tokens) : tokens[k].start = tokens[k - 1].end
        /\ tokens[Len(tokens)].end = Len(text)

\* C4: no read of the current byte, of the lookahead byte or of a byte in the
\* identifier and quoted-identifier scan loops accesses an offset >= Len(text).
C4_NoReadPastEnd ==
    oob \cap {"next_token", "peek", "identifier_handler", "quoted_identifier_handler"} = {}

\* C5: a token starting at '+' is PlusEq over two bytes when the next byte of
\* the text is '=', and Plus over one byte otherwise (another byte, or the
\* end of the input).
C5_MaximalMunch ==
    \A k \in DOMAIN tokens :
        LET t == tokens[k]
        IN  (t.start < Len(text) /\ text[t.start + 1] = 43) =>
                IF t.start + 1 < Len(text) /\ text[t.start + 2] = 61
                THEN t.kind = "PlusEq" /\ t.end = t.start + 2
                ELSE t.kind = "Plus" /\ t.end = t.start + 1

\* C6: a token starting at a letter or '_' is an Identifier whose span is the
\* maximal run of [A-Za-z0-9_] bytes from there; the cursor stops at its end.
C6_IdentifierRun ==
    \A k \in DOMAIN tokens :
        LET t == tokens[k]
        IN  (t.start < Len(text)
             /\ (is_ascii_alphabetic(text[t.start + 1]) \/ text[t.start + 1] = 95)) =>
                /\ t.kind = "Identifier"
                /\ t.end = IdentRunEnd(t.start)
                /\ t.end > t.start
                /\ (k = Len(tokens) => pos = t.end)

C8_PeekInBounds ==
    ret.op = "peek" =>
        /\ pos = ret.before
        /\ ret.some = (pos + 1 < Len(text))
        /\ (ret.some => ret.value = text[pos + 2])

\* C9: the cursor position stays within 0 .. Len(text) under every sequence
\* of cursor operations.
C9_PositionInBounds == 0 <= pos /\ pos <= Len(text)

\* C10: get_slice with arguments that violate 0 <= start <= end <= Len(text)
\* never returns a view (it ends in an error).
C10_SliceChecked ==
    (ret.op = "get_slice" /\ ~SliceInBounds(ret.args[1], ret.args[2])) =>
        ~("view" \in DOMAIN ret)

\* C11: a token of kind Empty is returned only by a next_token() call made
\* when is_at_end() held (`tokens` holds the tokens of the calls made while
\* it did not hold).
C11_EmptyOnlyAtEnd == \A k \in DOMAIN tokens : tokens[k].kind # "Empty"

\* C12: a next_token() call made when is_at_end() holds returns a token of
\* kind Empty and leaves the cursor position and the lexer's index unchanged.
C12_AtEndNoMove ==
    [][(AtEnd /\ pulls' = pulls + 1) =>
            /\ ret'.op = "next_token"
            /\ ret'.tok.kind = "Empty"
            /\ pos' = pos
            /\ index' = index
            /\ AtEnd']_vars

C12_Witness ==
    /\ AtEnd
    /\ pulls = MaxPulls
    /\ pulls >= 2
    /\ ret.op = "next_token"
    /\ ret.tok.kind = "Empty"
    /\ tokens # <<>>

\* C13: every next_token() call made while is_at_end() does not hold leaves
\* the cursor position strictly greater than it was.
C13_StrictProgress == [][(~AtEnd) => pos' > pos]_vars

C13_Witness ==
    /\ {"Identifier", "Plus", "Empty"} \subseteq {tokens[k].kind : k \in DOMAIN tokens}
    /\ \E k \in DOMAIN tokens : tokens[k].start < Len(text) /\ text[tokens[k].start + 1] = 96
    /\ pos > 0

\* C14: the quoted-identifier scan consumes the opening backtick, the maximal
\* run of ASCII alphanumeric bytes of the source, and exactly one further
\* byte, whatever it is and whether or not it exists: the scan ends one past
\* the end of the run (at Len(text) + 1 when the run ends the input).
C14_QuotedScanEnd ==
    \A k \in DOMAIN tokens :
        LET t == tokens[k]
        IN  (t.start < Len(text) /\ text[t.start + 1] = 96) =>
                /\ t.end = AlnumRunEnd(t.start + 1) + 1
                /\ (k = Len(tokens) => index = t.end)

\* C15: is_at_end, current, peek, add, get_slice, offset, get_current_pos and
\* peek_char leave the cursor position unchanged; advance(index) returns the
\* byte at index and sets the position to index.
C15_ReadsKeepPosition ==
    /\ ret.op \in {"is_at_end", "current", "peek", "add", "get_slice", "offset",
                   "get_current_pos", "peek_char"} => pos = ret.before
    /\ ret.op = "advance" =>
            /\ pos = ret.arg
            /\ (ret.arg < Len(text) => ret.value = text[ret.arg + 1])

C15_Witness ==
    /\ ret.op = "advance"
    /\ ret.arg # ret.before
    /\ ret.arg < Len(text)
    /\ pos = ret.arg
    /\ ret.before < Len(text)
    /\ ret.value # text[ret.before + 1]

\* C16: for every cursor position within the source, offset() returns the
\* number get_current_pos() returns, and its 32-bit subtraction does not
\* underflow.
C16_OffsetIsPosition ==
    (ret.op = "offset" /\ ret.before <= Len(text)) =>
        /\ ~ret.underflow
        /\ ~ret.panicked
        /\ ret.value = get_current_pos(ret.before)

\* C17: next_char() and peek_char() agree and are end-safe: at a position
\* before the end of the source, peek_char() returns the byte there without
\* moving and next_char() returns that byte and moves one byte on; at or past
\* the end both return None and do not move; next_char() never moves a
\* position within the source past its end.
C17_NextCharPeekChar ==
    /\ ret.op = "peek_char" =>
        /\ pos = ret.before
        /\ ret.some = (ret.before < Len(text))
        /\ ret.some => ret.value = text[ret.before + 1]
    /\ ret.op = "next_char" =>
        /\ ret.some = (ret.before < Len(text))
        /\ ret.some => (ret.value = text[ret.before + 1] /\ pos = ret.before + 1)
        /\ ~ret.some => pos = ret.before
        /\ ret.before <= Len(text) => pos <= Len(text)

\* next_char() has just returned the last byte of a source of two bytes or
\* more, not its first
C17_Witness ==
    /\ ret.op = "next_char"
    /\ ret.some
    /\ ret.before >= 1
    /\ pos = Len(text)

====
